---- MODULE Spec2Model ----
(***************************************************************************)
(* Model of the scan engine of ConcurCrawler: api_scan / main,             *)
(* scan_target, can_fetch_robots and fetch of src/app.py and               *)
(* src/scanner.py, together with the asyncio.Semaphore the engine uses as  *)
(* its concurrency limiter.                                                *)
(*                                                                         *)
(* A path of the input list is identified by its position in the list;    *)
(* the url a record carries is the one scan_target resolved for that       *)
(* position (the same `url` value is put in the Skipped record or handed   *)
(* to fetch, which copies it into every record it appends).                *)
(***************************************************************************)
EXTENDS Integers, Sequences, FiniteSets, TLC

(* ---------------- bounds of the model ---------------- *)
MaxPaths == 2
MaxRequested == 2
MaxSegs == 4

(* ---------------- program constants ---------------- *)
CONCURRENCY == 10
LO_CLAMP == 1
HI_CLAMP == 50
RETRIES == 1

PathIds == 1..MaxPaths

\* no url computed yet
NoUrl == [netloc |-> "", path |-> <<>>]

\* concurrency values a client may put in the JSON body of /api/scan
Requested == ((0 - 1)..MaxRequested) \cup {HI_CLAMP + 1}

\* what fetching and evaluating robots.txt can give for one path
RobotsOutcomes == {"allow", "deny", "unreadable"}

\* how one HTTP attempt (session.get) can end
AttemptResults == {"success", "timeout", "response_error", "client_error", "other_error"}

VARIABLES
    orch,       \* position of the orchestrator: idle, loop, gather, done
    entry,      \* which program runs the scan: none, app (api_scan), cli (main)
    requested,  \* the concurrency value the caller asked for
    N,          \* value the semaphore was constructed with
    npaths,     \* len(paths)
    idx,        \* position of the for loop of scan_target
    robots,     \* per path: what the robots check gave ("unset" before)
    pc,         \* per path: position of its fetch coroutine
    retries,    \* per path: `retries` argument of the innermost fetch frame
    held,       \* per path: number of fetch frames inside `async with sem`
    attempts,   \* per path: number of session.get requests issued
    history,    \* per path: how its finished attempts ended, in order
    sem,        \* Semaphore._value
    waiters,    \* Semaphore._waiters (paths whose frame waits in acquire)
    results,    \* the shared results list
    checked     \* len(paths) as reported to the caller at the end

\* one iteration of the loop of scan_target in detail (specification IterSpec)
VARIABLES
    ustep,      \* position inside the iteration ("off" while a whole scan is modelled)
    ubase,      \* base_url, as urlparse splits it
    upath,      \* the candidate path p
    probe_url,  \* url: what the iteration resolves and would probe
    gate_url,   \* the url handed to rp.can_fetch
    ufetch,     \* how reading robots.txt went
    uallowed,   \* what can_fetch_robots returned
    uoutcome    \* what the iteration did with the path: skipped or scheduled

uvars == <<ustep, ubase, upath, probe_url, gate_url, ufetch, uallowed, uoutcome>>

vars == <<orch, entry, requested, N, npaths, idx, robots, pc, retries, held,
          attempts, history, sem, waiters, results, checked, uvars>>

Max(a, b) == IF a >= b THEN a ELSE b
Min(a, b) == IF a <= b THEN a ELSE b

(* ---------------- api_scan: concurrency ---------------- *)

\* max(1, min(50, concurrency))
Clamp(c) == Max(LO_CLAMP, Min(HI_CLAMP, c))

\* int(data.get("concurrency") or CONCURRENCY): 0 is falsy in Python
OrDefault(c) == IF c = 0 THEN CONCURRENCY ELSE c

ApiConcurrency(c) == Clamp(OrDefault(c))

(* ---------------- can_fetch_robots ---------------- *)

AlwaysFetch(r) == TRUE
\* rp.can_fetch(...) when robots.txt was read, True when anything raised
can_fetch_robots(r) == r # "deny"

(* ---------------- asyncio.Semaphore ---------------- *)

NeverLocked(s, w) == FALSE
\* Semaphore.locked()
locked(s, w) == s = 0 \/ w # <<>>

\* Semaphore._wake_up_next on st = [sem, pc, waiters]
wake_up_next(st) ==
    LET ks == {k \in 1..Len(st.waiters) : st.pc[st.waiters[k]] = "wait"}
    IN  IF ks = {} THEN st
        ELSE LET k == CHOOSE x \in ks : \A y \in ks : x <= y
                 j == st.waiters[k]
             IN  [st EXCEPT !.sem = @ - 1, !.pc[j] = "woken"]

\* Semaphore.release
release(st) == wake_up_next([st EXCEPT !.sem = @ + 1])

ReleaseOnce(k, st) == release(st)
\* leaving k nested `async with sem` blocks, innermost first
RECURSIVE release_all(_, _)
release_all(k, st) == IF k = 0 THEN st ELSE release_all(k - 1, release(st))

RemoveWaiter(w, i) == SelectSeq(w, LAMBDA x : x # i)

(* ---------------- fetch: the except chain ---------------- *)

RetryResponseErrorToo(r, rt) == r \in {"client_error", "response_error"} /\ rt > 0
RetryTimeoutToo(r, rt) == r \in {"client_error", "timeout"} /\ rt > 0
\* the attempt is retried: except aiohttp.ClientError with retries > 0
Retried(r, rt) == r = "client_error" /\ rt > 0

RecordBeforeRetry(r, rt) == TRUE
\* the attempt appends a record to results
Recorded(r, rt) == ~Retried(r, rt)

PrependOutcome(res, i, kind) == <<[path |-> i, kind |-> kind]>> \o res
DropClientError(res, i, kind) ==
    IF kind = "client_error" THEN res ELSE Append(res, [path |-> i, kind |-> kind])
\* results.append({...})
AppendOutcome(res, i, kind) == Append(res, [path |-> i, kind |-> kind])

SameRetries(rt) == rt
\* fetch(session, url, headers, sem, results, retries - 1)
NextRetries(rt) == rt - 1

(* ---------------- scan_target: the for loop ---------------- *)

OneMoreRound(i, n) == i > n + 1
\* `for p in paths` is exhausted
LoopDone(i, n) == i > n

Scheduled == {i \in PathIds : pc[i] # "none"}

\* every task gather created has had its first step: the loop runs the first
\* steps of all new tasks, in list order, before it delivers any I/O or timer
AllStarted == \A j \in PathIds : pc[j] # "ready"

TypeOK ==
    /\ orch \in {"idle", "loop", "gather", "done"}
    /\ entry \in {"none", "app", "cli"}
    /\ npaths \in 0..MaxPaths
    /\ robots \in [PathIds -> RobotsOutcomes \cup {"unset"}]
    /\ pc \in [PathIds -> {"none", "created", "ready", "wait", "woken",
                           "request", "backoff", "pause", "done"}]
    /\ sem \in Nat

Init ==
    /\ orch = "idle"
    /\ entry = "none"
    /\ requested = 0
    /\ N = 0
    /\ npaths = 0
    /\ idx = 0
    /\ robots = [i \in PathIds |-> "unset"]
    /\ pc = [i \in PathIds |-> "none"]
    /\ retries = [i \in PathIds |-> RETRIES]
    /\ held = [i \in PathIds |-> 0]
    /\ attempts = [i \in PathIds |-> 0]
    /\ history = [i \in PathIds |-> <<>>]
    /\ sem = 0
    /\ waiters = <<>>
    /\ results = <<>>
    /\ checked = 0
    /\ ustep = "off"
    /\ ubase = [netloc |-> "h", path |-> <<"">>]
    /\ upath = <<"">>
    /\ probe_url = NoUrl
    /\ gate_url = NoUrl
    /\ ufetch = "none"
    /\ uallowed = TRUE
    /\ uoutcome = "none"

\* api_scan up to the first iteration of scan_target's loop
ApiScan(c, k) ==
    /\ orch = "idle"
    /\ entry' = "app"
    /\ requested' = c
    /\ N' = ApiConcurrency(c)
    /\ sem' = ApiConcurrency(c)
    /\ npaths' = k
    /\ idx' = 1
    /\ orch' = "loop"
    /\ UNCHANGED <<robots, pc, retries, held, attempts, history, waiters, results, checked>>
    /\ UNCHANGED uvars

\* main of scanner.py: scan_target(base_url, paths) with the default concurrency
CliMain(k) ==
    /\ orch = "idle"
    /\ k >= 1
    /\ entry' = "cli"
    /\ requested' = CONCURRENCY
    /\ N' = CONCURRENCY
    /\ sem' = CONCURRENCY
    /\ npaths' = k
    /\ idx' = 1
    /\ orch' = "loop"
    /\ UNCHANGED <<robots, pc, retries, held, attempts, history, waiters, results, checked>>
    /\ UNCHANGED uvars

LoopStepInSlot(r) ==
    /\ orch = "loop"
    /\ idx <= npaths
    /\ idx \in PathIds
    /\ sem > 0
    /\ sem' = sem - 1
    /\ robots' = [robots EXCEPT ![idx] = r]
    /\ IF r # "deny"
       THEN pc' = [pc EXCEPT ![idx] = "created"] /\ results' = results
       ELSE results' = Append(results, [path |-> idx, kind |-> "skipped"]) /\ pc' = pc
    /\ idx' = idx + 1
    /\ UNCHANGED <<orch, entry, requested, N, npaths, retries, held, attempts,
                   history, waiters, checked>>
    /\ UNCHANGED uvars

\* one iteration of `for p in paths`
LoopStep(r) ==
    /\ orch = "loop"
    /\ ~LoopDone(idx, npaths)
    /\ idx \in PathIds
    /\ robots' = [robots EXCEPT ![idx] = r]
    /\ IF can_fetch_robots(r)
       THEN /\ pc' = [pc EXCEPT ![idx] = "created"]
            /\ results' = results
       ELSE /\ results' = AppendOutcome(results, idx, "skipped")
            /\ pc' = pc
    /\ idx' = idx + 1
    /\ UNCHANGED <<orch, entry, requested, N, npaths, retries, held, attempts,
                   history, sem, waiters, checked>>
    /\ UNCHANGED uvars

\* app.py: `if tasks:` is false, scan_target returns and api_scan builds the response
ReturnNoTasks ==
    /\ orch = "loop"
    /\ LoopDone(idx, npaths)
    /\ entry = "app"
    /\ Scheduled = {}
    /\ orch' = "done"
    /\ checked' = npaths
    /\ UNCHANGED <<entry, requested, N, npaths, idx, robots, pc, retries, held,
                   attempts, history, sem, waiters, results>>
    /\ UNCHANGED uvars

\* await asyncio.gather(*tasks): the coroutines become tasks of the loop
Gather ==
    /\ orch = "loop"
    /\ LoopDone(idx, npaths)
    /\ entry = "cli" \/ Scheduled # {}
    /\ orch' = "gather"
    /\ pc' = [i \in PathIds |-> IF pc[i] = "created" THEN "ready" ELSE pc[i]]
    /\ UNCHANGED <<entry, requested, N, npaths, idx, robots, retries, held,
                   attempts, history, sem, waiters, results, checked>>
    /\ UNCHANGED uvars

\* gather is done: scan_target returns results, the caller reports len(paths)
Return ==
    /\ orch = "gather"
    /\ \A i \in Scheduled : pc[i] = "done"
    /\ orch' = "done"
    /\ checked' = npaths
    /\ UNCHANGED <<entry, requested, N, npaths, idx, robots, pc, retries, held,
                   attempts, history, sem, waiters, results>>
    /\ UNCHANGED uvars

AcquireTwoRequests(i) ==
    IF sem > 0 /\ waiters = <<>>
    THEN /\ sem' = sem - 1
         /\ held' = [held EXCEPT ![i] = @ + 1]
         /\ attempts' = [attempts EXCEPT ![i] = @ + 2]
         /\ pc' = [pc EXCEPT ![i] = "request"]
         /\ waiters' = waiters
    ELSE /\ waiters' = Append(waiters, i)
         /\ pc' = [pc EXCEPT ![i] = "wait"]
         /\ UNCHANGED <<sem, held, attempts>>

\* `async with sem:` of a fetch frame of path i, then session.get if admitted
Acquire(i) ==
    IF ~locked(sem, waiters)
    THEN /\ sem' = sem - 1
         /\ held' = [held EXCEPT ![i] = @ + 1]
         /\ attempts' = [attempts EXCEPT ![i] = @ + 1]
         /\ pc' = [pc EXCEPT ![i] = "request"]
         /\ waiters' = waiters
    ELSE /\ waiters' = Append(waiters, i)
         /\ pc' = [pc EXCEPT ![i] = "wait"]
         /\ UNCHANGED <<sem, held, attempts>>

\* the task of path i runs for the first time (tasks start in list order)
Start(i) ==
    /\ orch = "gather"
    /\ pc[i] = "ready"
    /\ \A j \in PathIds : j < i => pc[j] # "ready"
    /\ Acquire(i)
    /\ UNCHANGED <<orch, entry, requested, N, npaths, idx, robots, retries,
                   history, results, checked>>
    /\ UNCHANGED uvars

\* a woken waiter returns from Semaphore.acquire and issues its request
Resume(i) ==
    /\ pc[i] = "woken"
    /\ AllStarted
    /\ LET st0 == [sem |-> sem, pc |-> pc, waiters |-> RemoveWaiter(waiters, i)]
           st == IF sem > 0 THEN wake_up_next(st0) ELSE st0
       IN  /\ sem' = st.sem
           /\ waiters' = st.waiters
           /\ pc' = [st.pc EXCEPT ![i] = "request"]
    /\ held' = [held EXCEPT ![i] = @ + 1]
    /\ attempts' = [attempts EXCEPT ![i] = @ + 1]
    /\ UNCHANGED <<orch, entry, requested, N, npaths, idx, robots, retries,
                   history, results, checked>>
    /\ UNCHANGED uvars

\* the frames of path i leave their `async with sem` blocks and the task ends
Finish(i) ==
    LET st == release_all(held[i], [sem |-> sem, pc |-> pc, waiters |-> waiters])
    IN  /\ sem' = st.sem
        /\ waiters' = st.waiters
        /\ pc' = [st.pc EXCEPT ![i] = "done"]
        /\ held' = [held EXCEPT ![i] = 0]

\* the request of path i ends with r: the body or one except clause of fetch runs
Respond(i, r) ==
    /\ pc[i] = "request"
    /\ AllStarted
    /\ history' = [history EXCEPT ![i] = Append(@, r)]
    /\ results' = IF Recorded(r, retries[i]) THEN AppendOutcome(results, i, r)
                  ELSE results
    /\ IF Retried(r, retries[i])
       THEN /\ pc' = [pc EXCEPT ![i] = "backoff"]
            /\ UNCHANGED <<sem, waiters, held>>
       ELSE IF r = "success"
       THEN /\ pc' = [pc EXCEPT ![i] = "pause"]
            /\ UNCHANGED <<sem, waiters, held>>
       ELSE Finish(i)
    /\ UNCHANGED <<orch, entry, requested, N, npaths, idx, robots, retries,
                   attempts, checked>>
    /\ UNCHANGED uvars

\* the politeness sleep after a success is over
PauseDone(i) ==
    /\ pc[i] = "pause"
    /\ AllStarted
    /\ Finish(i)
    /\ UNCHANGED <<orch, entry, requested, N, npaths, idx, robots, retries,
                   attempts, history, results, checked>>
    /\ UNCHANGED uvars

\* asyncio.sleep(0.5) is over: the recursive fetch(..., retries - 1) begins
BackoffDone(i) ==
    /\ pc[i] = "backoff"
    /\ AllStarted
    /\ retries' = [retries EXCEPT ![i] = NextRetries(@)]
    /\ Acquire(i)
    /\ UNCHANGED <<orch, entry, requested, N, npaths, idx, robots, history,
                   results, checked>>
    /\ UNCHANGED uvars

Next ==
    \/ \E c \in Requested, k \in 0..MaxPaths : ApiScan(c, k)
    \/ \E k \in 1..MaxPaths : CliMain(k)
    \/ \E r \in RobotsOutcomes : LoopStep(r)
    \/ ReturnNoTasks
    \/ Gather
    \/ Return
    \/ \E i \in PathIds : Start(i)
    \/ \E i \in PathIds : Resume(i)
    \/ \E i \in PathIds, r \in AttemptResults : Respond(i, r)
    \/ \E i \in PathIds : PauseDone(i)
    \/ \E i \in PathIds : BackoffDone(i)

Spec == Init /\ [][Next]_vars

\* the event loop runs every runnable task, every sleep ends and every issued
\* request returns or fails
Fairness ==
    /\ WF_vars(\E r \in RobotsOutcomes : LoopStep(r))
    /\ WF_vars(ReturnNoTasks)
    /\ WF_vars(Gather)
    /\ WF_vars(Return)
    /\ \A i \in PathIds :
        /\ WF_vars(Start(i))
        /\ WF_vars(Resume(i))
        /\ WF_vars(\E r \in AttemptResults : Respond(i, r))
        /\ WF_vars(PauseDone(i))
        /\ WF_vars(BackoffDone(i))

FairSpec == Spec /\ Fairness

(* ============ one loop iteration in detail: urls and robots.txt ============ *)

\* A string is kept as the list str.split("/") gives: "a/b" is <<"a", "b">>,
\* "/a" is <<"", "a">>, "" is <<"">>.  A url is kept as urlparse splits it,
\* netloc and path, the scheme being http throughout; "http:" in front of a
\* candidate path is the first piece of its split.

Segs == {"", "a", ".."}
Strs(n) == UNION {[1..k -> Segs] : k \in 1..n}

\* candidate paths: relative and absolute paths, and paths that carry a scheme
Paths == Strs(MaxSegs) \cup {<<"http:">>}
            \cup {<<"http:">> \o t : t \in Strs(MaxSegs - 1)}

\* base urls: http://h, http://h/, http://h/a, http://h/a/
Bases == {[netloc |-> "h", path |-> q] :
            q \in {<<"">>, <<"", "">>, <<"", "a">>, <<"", "a", "">>}}

\* how rp.read() can go
RobotsFetch == {"rules_allow", "rules_deny", "http_401_403", "http_4xx_other",
                "http_5xx", "network_error", "timeout", "bad_encoding"}

\* str.rstrip("/")
RECURSIVE rstrip(_)
rstrip(t) == IF Len(t) > 1 /\ t[Len(t)] = "" THEN rstrip(SubSeq(t, 1, Len(t) - 1)) ELSE t

\* str.lstrip("/")
RECURSIVE lstrip(_)
lstrip(t) == IF Len(t) > 1 /\ t[1] = "" THEN lstrip(Tail(t)) ELSE t

\* base_url.rstrip("/") + "/"
BaseDir(b) == [b EXCEPT !.path = Append(rstrip(b.path), "")]

\* urlparse(url, bscheme): scheme, netloc and path of a candidate path
urlparse(t) ==
    LET scheme == IF t[1] = "http:" THEN "http" ELSE ""
        rest == IF t[1] = "http:" THEN [t EXCEPT ![1] = ""] ELSE t
    IN  IF Len(rest) >= 3 /\ rest[1] = "" /\ rest[2] = ""
        THEN [scheme |-> scheme, netloc |-> rest[3],
              path |-> <<"">> \o SubSeq(rest, 4, Len(rest))]
        ELSE [scheme |-> scheme, netloc |-> "", path |-> rest]

\* segments[1:-1] = filter(None, segments[1:-1])
FilterMiddle(t) ==
    IF Len(t) <= 2 THEN t
    ELSE <<t[1]>> \o SelectSeq(SubSeq(t, 2, Len(t) - 1), LAMBDA x : x # "")
                  \o <<t[Len(t)]>>

\* the loop of urljoin that resolves "." and ".." segments
RECURSIVE Resolve(_, _)
Resolve(t, acc) ==
    IF t = <<>> THEN acc
    ELSE IF t[1] = ".."
         THEN Resolve(Tail(t), IF acc = <<>> THEN acc ELSE SubSeq(acc, 1, Len(acc) - 1))
    ELSE IF t[1] = "."
         THEN Resolve(Tail(t), acc)
    ELSE Resolve(Tail(t), Append(acc, t[1]))

\* '/'.join(resolved_path) or '/', then urlunparse puts "/" in front of a
\* path that does not start with one
Unparse(t) ==
    IF t = <<>> \/ t = <<"">> THEN <<"", "">>
    ELSE IF t[1] # "" THEN <<"">> \o t
    ELSE t

\* urllib.parse.urljoin(base, url)
urljoin(b, t) ==
    IF t = <<"">> THEN b
    ELSE LET u == urlparse(t) IN
         IF u.netloc # "" THEN [netloc |-> u.netloc, path |-> u.path]
         ELSE IF u.path = <<"">> THEN b
         ELSE LET bp == IF b.path[Len(b.path)] # ""
                        THEN SubSeq(b.path, 1, Len(b.path) - 1) ELSE b.path
                  segments == IF Len(u.path) >= 2 /\ u.path[1] = ""
                              THEN u.path
                              ELSE FilterMiddle(bp \o u.path)
                  resolved == Resolve(segments, <<>>)
                  last == segments[Len(segments)]
              IN  [netloc |-> b.netloc,
                   path |-> Unparse(IF last \in {".", ".."}
                                    THEN Append(resolved, "") ELSE resolved)]

\* url = urljoin(base_url.rstrip("/") + "/", p.lstrip("/"))
ResolveProbe(b, t) == urljoin(BaseDir(b), lstrip(t))

\* the url can_fetch_robots passes to rp.can_fetch: urljoin(base_url, path)
ResolveGate(b, t) == urljoin(b, t)

\* rp.read() then rp.can_fetch inside the try of can_fetch_robots, as one of
\* the three ways the call can end: rules allow, rules deny, exception
robotparser(f) ==
    IF f \in {"network_error", "timeout", "bad_encoding"} THEN "unreadable"
    ELSE IF f \in {"rules_deny", "http_401_403", "http_5xx"} THEN "deny"
    ELSE "allow"

ScanIdle ==
    /\ orch = "idle" /\ entry = "none" /\ requested = 0 /\ N = 0 /\ npaths = 0
    /\ idx = 0 /\ sem = 0 /\ waiters = <<>> /\ results = <<>> /\ checked = 0
    /\ robots = [i \in PathIds |-> "unset"]
    /\ pc = [i \in PathIds |-> "none"]
    /\ retries = [i \in PathIds |-> RETRIES]
    /\ held = [i \in PathIds |-> 0]
    /\ attempts = [i \in PathIds |-> 0]
    /\ history = [i \in PathIds |-> <<>>]

scanvars == <<orch, entry, requested, N, npaths, idx, robots, pc, retries, held,
              attempts, history, sem, waiters, results, checked>>

\* the iteration starts with some base url and some candidate path
IterInit ==
    /\ ScanIdle
    /\ ustep = "start"
    /\ ubase \in Bases
    /\ upath \in Paths
    /\ probe_url = NoUrl
    /\ gate_url = NoUrl
    /\ ufetch = "none"
    /\ uallowed = TRUE
    /\ uoutcome = "none"

\* url = urljoin(base_url.rstrip("/") + "/", p.lstrip("/"))
ResolveUrl ==
    /\ ustep = "start"
    /\ probe_url' = ResolveProbe(ubase, upath)
    /\ ustep' = "resolved"
    /\ UNCHANGED <<ubase, upath, gate_url, ufetch, uallowed, uoutcome, scanvars>>

\* can_fetch_robots(base_url, p): robots.txt is read (f) and the gate's url judged
CheckRobots(f) ==
    /\ ustep = "resolved"
    /\ ufetch' = f
    /\ gate_url' = IF robotparser(f) # "unreadable"
                   THEN ResolveGate(ubase, upath) ELSE gate_url
    /\ uallowed' = can_fetch_robots(robotparser(f))
    /\ ustep' = "gated"
    /\ UNCHANGED <<ubase, upath, probe_url, uoutcome, scanvars>>

\* `if not can_fetch_robots(...)`: Skipped record, or a fetch coroutine for url
Branch ==
    /\ ustep = "gated"
    /\ uoutcome' = IF uallowed THEN "scheduled" ELSE "skipped"
    /\ ustep' = "decided"
    /\ UNCHANGED <<ubase, upath, probe_url, gate_url, ufetch, uallowed, scanvars>>

IterNext ==
    \/ ResolveUrl
    \/ \E f \in RobotsFetch : CheckRobots(f)
    \/ Branch

IterSpec == IterInit /\ [][IterNext]_vars

(* ======================= properties ======================= *)

RecordsOf(i) == {k \in 1..Len(results) : results[k].path = i}
RecordsOfKind(i, kind) == {k \in RecordsOf(i) : results[k].kind = kind}
InFlight == {i \in PathIds : pc[i] = "request"}
FailureKinds == {"timeout", "response_error", "client_error", "other_error"}

\* C1: when the scan has returned, results holds exactly one record for every
\* position of the input list and none for anything else, and the reported
\* count equals both len(results) and len(paths).
C1_OneOutcomePerPath ==
    orch = "done" =>
        /\ Len(results) = npaths
        /\ checked = npaths
        /\ \A i \in 1..npaths : Cardinality(RecordsOf(i)) = 1
        /\ \A k \in 1..Len(results) : results[k].path \in 1..npaths

C1_Witness ==
    /\ orch = "done"
    /\ npaths >= 2
    /\ \E k \in 1..Len(results) : results[k].kind = "skipped"
    /\ \E k \in 1..Len(results) : results[k].kind = "client_error"

\* C2: once a scan has started, under fair scheduling and with every request
\* answered, scan_target eventually returns.
C2_ScanCompletes == (orch = "loop") ~> (orch = "done")

\* C3: the number of paths with a request in flight never exceeds the size of
\* the limiter, and a frame that reaches `async with sem` while the semaphore
\* is at zero does not issue a request in that step.
C3_ConcurrencyBound ==
    /\ [](Cardinality(InFlight) <= N)
    /\ [][\A i \in PathIds :
            (pc[i] \in {"ready", "backoff"} /\ sem = 0) => pc'[i] # "request"]_vars

C3_Witness ==
    /\ Cardinality(InFlight) = N
    /\ \E i \in PathIds : pc[i] = "wait" /\ held[i] = 0

\* C4: a path the robots check disallowed has a Skipped record, no fetch
\* coroutine and no request issued; a Skipped record only ever belongs to a
\* path the robots check disallowed.
C4_RobotsSkip ==
    /\ \A i \in PathIds :
          robots[i] = "deny" =>
              /\ attempts[i] = 0
              /\ pc[i] = "none"
              /\ Cardinality(RecordsOf(i)) = 1
              /\ Cardinality(RecordsOfKind(i, "skipped")) = 1
    /\ \A k \in 1..Len(results) :
          results[k].kind = "skipped" => robots[results[k].path] = "deny"

C4_Witness ==
    /\ orch = "done"
    /\ \E i, j \in PathIds : robots[i] = "deny" /\ attempts[j] > 0

OwnAttemptsFine(i) == \A k \in 1..Len(history[i]) : history[i][k] = "success"

\* C5: a permitted path none of whose own attempts fails eventually gets its
\* outcome recorded, whatever happens to the other paths.
C5_SiblingIsolation ==
    \A i \in PathIds :
        (pc[i] = "ready") ~> (RecordsOf(i) # {} \/ ~OwnAttemptsFine(i))

\* C6: a path whose first attempt ended in a transport error and whose second
\* attempt succeeded has made exactly two attempts and has exactly one
\* record, a Success.
C6_RetrySucceeds ==
    \A i \in PathIds :
        history[i] = <<"client_error", "success">> =>
            /\ attempts[i] = 2
            /\ Cardinality(RecordsOf(i)) = 1
            /\ Cardinality(RecordsOfKind(i, "success")) = 1

C6_Witness ==
    /\ orch = "done"
    /\ npaths >= 2
    /\ \E i \in PathIds : history[i] = <<"client_error", "success">>

\* C7: no path ever makes a third attempt, and a path whose two attempts both
\* ended in a transport error has exactly one record, tagged client_error.
C7_RetryFails ==
    \A i \in PathIds :
        /\ attempts[i] <= 2
        /\ history[i] = <<"client_error", "client_error">> =>
              /\ attempts[i] = 2
              /\ pc[i] = "done"
              /\ Cardinality(RecordsOf(i)) = 1
              /\ Cardinality(RecordsOfKind(i, "client_error")) = 1

C7_Witness ==
    \E i \in PathIds : history[i] = <<"client_error", "client_error">>

\* C8: an attempt that timed out is the last attempt of its path and leaves
\* exactly one record, tagged timeout; if it was the first attempt it is the
\* only one.
C8_TimeoutNoRetry ==
    \A i \in PathIds : \A k \in 1..Len(history[i]) :
        history[i][k] = "timeout" =>
            /\ k = Len(history[i])
            /\ attempts[i] = k
            /\ pc[i] = "done"
            /\ Cardinality(RecordsOf(i)) = 1
            /\ Cardinality(RecordsOfKind(i, "timeout")) = 1

C8_Witness ==
    /\ orch = "done"
    /\ \E i \in PathIds : history[i] = <<"timeout">> /\ attempts[i] = 1

\* C9: the semaphore of a scan is built with the requested concurrency
\* clamped to [1, 50].
C9_ClampedOnce == orch # "idle" => N = Clamp(requested)

\* C10: a scan of an empty path list goes from the loop straight to its
\* return with no record, no robots check, no coroutine, no request and an
\* untouched semaphore, and reports checked = 0.
C10_EmptyScan ==
    (orch # "idle" /\ npaths = 0) =>
        /\ orch \in {"loop", "done"}
        /\ results = <<>>
        /\ checked = 0
        /\ sem = N
        /\ waiters = <<>>
        /\ \A i \in PathIds :
              robots[i] = "unset" /\ pc[i] = "none" /\ attempts[i] = 0 /\ held[i] = 0

C10_Witness == orch = "done" /\ npaths = 0 /\ entry = "app"

\* C11: a probe unit never holds more than one limiter slot and never waits
\* in the limiter's queue while it already holds a slot.
C11_OneSlotPerUnit ==
    \A i \in PathIds :
        /\ held[i] <= 1
        /\ pc[i] \in {"wait", "woken"} => held[i] = 0

\* C12: a worker only ever finishes (and releases its slot) from the
\* politeness pause, whatever outcome it recorded.
C12_PauseAfterEveryOutcome ==
    [][\A i \in PathIds : (pc[i] # "done" /\ pc'[i] = "done") => pc[i] = "pause"]_vars

\* C15: an attempt that ended in response_error or other_error is the last
\* attempt of its path and leaves exactly one record with that tag; a second
\* attempt is only ever made after a first attempt that ended in client_error.
C15_OnlyTransportRetried ==
    \A i \in PathIds :
        /\ \A k \in 1..Len(history[i]) :
              history[i][k] \in {"response_error", "other_error"} =>
                  /\ k = Len(history[i])
                  /\ attempts[i] = k
                  /\ pc[i] = "done"
                  /\ Cardinality(RecordsOf(i)) = 1
                  /\ Cardinality(RecordsOfKind(i, history[i][k])) = 1
        /\ attempts[i] >= 2 => (Len(history[i]) >= 1 /\ history[i][1] = "client_error")

C15_Witness ==
    \E i, j \in PathIds :
        /\ history[i] = <<"response_error">>
        /\ history[j] = <<"client_error", "other_error">>

\* C16: a path has at most one request in flight, and its second request is
\* only issued after its first has ended (in a transport error).
C16_RetryAfterFailure ==
    \A i \in PathIds :
        /\ attempts[i] - Len(history[i]) \in {0, 1}
        /\ (attempts[i] - Len(history[i]) = 1) <=> (pc[i] = "request")
        /\ attempts[i] >= 2 => (Len(history[i]) >= 1 /\ history[i][1] = "client_error")

C16_Witness ==
    \E i \in PathIds :
        pc[i] = "request" /\ attempts[i] = 2 /\ history[i] = <<"client_error">>

\* C17: while the loop makes the robots decisions the semaphore is untouched
\* and no coroutine runs, and a path that gets a Skipped record gets no
\* coroutine.
C17_RobotsOutsideLimiter ==
    /\ [](orch = "loop" =>
            /\ sem = N
            /\ waiters = <<>>
            /\ \A i \in PathIds : held[i] = 0 /\ pc[i] \in {"none", "created"})
    /\ [][\A i \in PathIds :
            Cardinality(RecordsOfKind(i, "skipped")') > Cardinality(RecordsOfKind(i, "skipped"))
                => (sem' = sem /\ pc' = pc /\ pc[i] = "none")]_vars

C17_Witness ==
    /\ orch = "loop"
    /\ \E k \in 1..Len(results) : results[k].kind = "skipped"
    /\ \E i \in PathIds : pc[i] = "created"

RECURSIVE SumTo(_, _)
SumTo(f, k) == IF k = 0 THEN 0 ELSE f[k] + SumTo(f, k - 1)
\* slots that belong to a probe unit: frames inside `async with sem` and
\* waiters the semaphore has already handed a slot
SlotsHeld == SumTo(held, MaxPaths) + Cardinality({i \in PathIds : pc[i] = "woken"})

\* C18: once the semaphore exists, free slots plus slots held by probe units
\* equal N, free slots stay within 0..N, and at the return all slots are free.
C18_SlotConservation ==
    orch # "idle" =>
        /\ sem + SlotsHeld = N
        /\ sem >= 0 /\ sem <= N
        /\ orch = "done" => sem = N

C18_Witness ==
    /\ orch = "done"
    /\ sem = N
    /\ \E i \in PathIds : Len(history[i]) = 2

\* C19: no request is issued before the loop has made the robots decision of
\* every path; in results every Skipped record precedes every other record,
\* Skipped records are in input order, and records are only ever appended.
C19_SkippedFirst ==
    /\ []((\E i \in PathIds : attempts[i] > 0) =>
            (idx > npaths /\ \A i \in 1..npaths : robots[i] # "unset"))
    /\ [](\A k, l \in 1..Len(results) :
            (k < l /\ results[l].kind = "skipped") =>
                (results[k].kind = "skipped" /\ results[k].path < results[l].path))
    /\ [][Len(results') >= Len(results)
            /\ SubSeq(results', 1, Len(results)) = results]_vars

C19_Witness ==
    /\ Len(results) >= 2
    /\ results[1].kind = "skipped"
    /\ results[Len(results)].kind # "skipped"

\* two urls name the same resource: same host, same path, an empty path
\* counting as "/"
SameUrl(u, v) ==
    /\ u.netloc = v.netloc
    /\ (IF u.path = <<"">> THEN <<"", "">> ELSE u.path)
         = (IF v.path = <<"">> THEN <<"", "">> ELSE v.path)

\* C13: the url the robots gate judges is the url the iteration resolved and
\* would probe.
C13_GateUrlIsProbeUrl ==
    (gate_url # NoUrl /\ probe_url # NoUrl) => SameUrl(gate_url, probe_url)

\* the ways reading robots.txt can fail
RobotsFailures == RobotsFetch \ {"rules_allow", "rules_deny"}

\* C14: when robots.txt could not be fetched or decoded, can_fetch_robots
\* returns True and the path is scheduled for probing, not skipped.
C14_FailsOpen ==
    (ustep = "decided" /\ ufetch \in RobotsFailures) =>
        (uallowed /\ uoutcome = "scheduled")

\* the url has the base's host and its path starts with the base's path,
\* taken as a directory
UnderBase(u, b) ==
    LET d == BaseDir(b).path
    IN  /\ u.netloc = b.netloc
        /\ Len(u.path) >= Len(d)
        /\ SubSeq(u.path, 1, Len(d) - 1) = SubSeq(d, 1, Len(d) - 1)

\* C20: a url that is scheduled for probing has the host of the base url and
\* lies under the base url's path.
C20_ProbeStaysUnderBase ==
    uoutcome = "scheduled" => UnderBase(probe_url, ubase)

====
